---- MODULE Spec2Model ----
(***************************************************************************)
(* reminder-service: the audited request handlers of src/server.js         *)
(* (lines 219-437) over the external document store.                       *)
(*                                                                         *)
(* A handler is straight-line asynchronous code: it runs without           *)
(* interruption up to an awaited store call, and other requests may run    *)
(* between the call and its continuation.  One step of the model is one    *)
(* awaited store call taking effect together with the synchronous code     *)
(* that follows it up to the next await.  The arrival of a request, its    *)
(* synchronous validation and its first store call form one step (arrival  *)
(* changes nothing another request can see).  Every store call may throw.  *)
(*                                                                         *)
(* `out` holds the response sent by the last step, with its request, so    *)
(* that a response is seen in the state right after the step that sent it. *)
(*                                                                         *)
(* The in-memory variant of src/unnamed/part_000 (lines 13-76) is the      *)
(* variable `mock`.  Its handlers are synchronous: each is one step.  Under *)
(* SpecDouble it is given every request the store-backed handlers are      *)
(* given, one request at a time; under Spec it is not running.             *)
(***************************************************************************)
EXTENDS Integers, Sequences, FiniteSets, TLC

\* ---------------------------------------------------------------- bounds
\* Store calls of the requests that get past their first call (a Create
\* makes 3, an Update or a Delete 4).
MaxCalls == 11

NumProcs == 2         \* requests in flight at the same time
MaxIds == 2           \* document ids the store can generate
MaxFailures == 1      \* store calls that throw in one behaviour

Procs == 1..NumProcs
Ids == 1..MaxIds

\* ------------------------------------------------------------ JS objects
\* A JSON object is a function from its keys; an omitted (undefined) field
\* is a key that is not in the domain.
Empty == [k \in {} |-> ""]

Has(o, k) == k \in DOMAIN o

\* JS truthiness of a string-valued field: undefined and "" are falsy.
Truthy(o, k) == Has(o, k) /\ o[k] # ""

\* { ...a, ...b }
Spread(a, b) ==
  [k \in DOMAIN a \cup DOMAIN b |-> IF k \in DOMAIN b THEN b[k] ELSE a[k]]

\* ------------------------------------------------------------ environment
\* The users collection: u1 has a name, u2 has a blank name, u3 has no
\* document.  This service never writes it.  u1 and u2 are the patients
\* (role 'user') of organization o1; organization o2 has an administrator
\* and no patient; organization o3 has no user.
UserIds == {"u1", "u2", "u3"}

Users ==
  [u \in {"u1", "u2", "a1"} |->
     [ name |-> CASE u = "u1" -> "Alice" [] u = "u2" -> "" [] u = "a1" -> "Admin",
       organizationId |-> IF u = "a1" THEN "o2" ELSE "o1",
       role |-> IF u = "a1" THEN "admin" ELSE "user" ]]

Organizations == {"o1", "o2", "o3"}

\* Datetimes are ISO strings; the store orders strings lexicographically.
D1 == "2024-01-01T08:00:00Z"
D2 == "2024-01-02T08:00:00Z"

DatetimeRank(d) == CASE d = D1 -> 1 [] d = D2 -> 2 [] OTHER -> 0

\* FieldValue.serverTimestamp(): a sentinel the client sends; the store
\* replaces it by its own time when the write is applied.  Times are opaque.
ServerTimestamp == "FieldValue.serverTimestamp()"

StoreTime == "Timestamp"

\* -------------------------------------------------------- request inputs
\* The request bodies the model draws from.  Create: the three shapes of
\* description for u1, one body for each other user, and one body for each
\* way a required field can be absent or empty.
CreateBodies ==
  { [userId |-> "u1", title |-> "a", datetime |-> D1],
    [userId |-> "u1", title |-> "a", description |-> "", datetime |-> D1],
    [userId |-> "u1", title |-> "a", description |-> "x", datetime |-> D2],
    [userId |-> "u2", title |-> "a", description |-> "x", datetime |-> D1],
    [userId |-> "u3", title |-> "a", description |-> "x", datetime |-> D2],
    [title |-> "a", datetime |-> D1],
    [userId |-> "", title |-> "a", datetime |-> D1],
    [userId |-> "u1", datetime |-> D1],
    [userId |-> "u1", title |-> "", datetime |-> D1],
    [userId |-> "u1", title |-> "a", description |-> "x"],
    [userId |-> "u1", title |-> "a", datetime |-> ""] }

\* Update: by u1 each shape of the optional fields (present and truthy,
\* present and falsy, omitted), by the other users one body, and the two
\* ways userId can be missing.
UpdateFields ==
  { [completed |-> TRUE],
    [description |-> "", completed |-> FALSE],
    [title |-> "", datetime |-> ""],
    [title |-> "b", datetime |-> D1] }

UpdateBodies ==
  {Spread([userId |-> "u1"], f) : f \in UpdateFields}
    \cup {[userId |-> u, completed |-> TRUE] : u \in {"u2", "u3"}}
    \cup {[completed |-> TRUE], [userId |-> "", completed |-> TRUE]}

DeleteBodies == {[userId |-> u] : u \in UserIds} \cup {Empty, [userId |-> ""]}

\* The requests whose first store call the model lets throw (the catch
\* block's response does not depend on the request).
ThrowRequests ==
  { [kind |-> "Create", params |-> Empty,
     body |-> [userId |-> "u1", title |-> "a", datetime |-> D1]],
    [kind |-> "List", params |-> [userId |-> "u1"], body |-> Empty],
    [kind |-> "ListAll", params |-> [organizationId |-> "o1"], body |-> Empty],
    [kind |-> "Update", params |-> [reminderId |-> 1],
     body |-> [userId |-> "u1", completed |-> TRUE]],
    [kind |-> "Delete", params |-> [reminderId |-> 1], body |-> [userId |-> "u1"]] }

\* ----------------------------------------------------------------- state
VARIABLES
  reminders,   \* the reminders collection: document id -> document
  logs,        \* the logs collection, in the order the entries were added
  usedIds,     \* document ids the store has generated for reminders
  owner,       \* history: the userId each of them was created with
  calls,       \* store calls of the requests that got past their first
  pc,          \* per request slot: "idle" or the awaited call it is at
  req,         \* per request slot: the request being handled
  loc,         \* per request slot: the handler's local variables
  out,         \* the response sent by the last step, with its request
  failures,    \* number of store calls that threw
  mock         \* the in-memory variant: its map, its ids, its last response

vars ==
  <<reminders, logs, usedIds, owner, calls, pc, req, loc, out, failures, mock>>

NoReq == [kind |-> "none", params |-> Empty, body |-> Empty]

\* Local variables of a handler and of the logChange call it makes.  The
\* fields lookup, append, logIdx, wrote, removed, threw and queried record
\* what the handler's own store calls did.
NoLoc ==
  [ id |-> 0,              \* docRef.id / reminderId
    data |-> Empty,        \* reminderData / oldData
    updates |-> Empty,     \* updates
    userName |-> "",       \* logChange: userName
    lookup |-> "none",     \* users lookup: none, found, missing, error
    append |-> "none",     \* logs add: none, ok, failed
    logIdx |-> {},         \* positions in logs of the entries it added
    wrote |-> FALSE,       \* its add / update was applied
    removed |-> FALSE,     \* its delete was applied
    threw |-> "none",      \* the awaited call whose error reached its catch
    queried |-> <<>> ]     \* the 'in' filters of its reminders queries

NoResp == [status |-> 0]

NoOut == [req |-> NoReq, resp |-> NoResp, loc |-> NoLoc]

\* The in-memory variant at start: let reminders = {}, no uuid generated,
\* no response sent.
NoMock == [reminders |-> Empty, uuids |-> {}, resp |-> NoResp]

Init ==
  /\ reminders = Empty
  /\ logs = <<>>
  /\ usedIds = {}
  /\ owner = Empty
  /\ calls = 0
  /\ pc = [p \in Procs |-> "idle"]
  /\ req = [p \in Procs |-> NoReq]
  /\ loc = [p \in Procs |-> NoLoc]
  /\ out = NoOut
  /\ failures = 0
  /\ mock = NoMock

\* --------------------------------------------------------- handler plans
\* The awaited calls of each handler, in program order.
\* Create calling logChange without awaiting it: the handler goes on to its
\* response with the call pending.
CreateStepsLogDetached == <<"add">>

CreateSteps == <<"add", "log">>

ListSteps == <<"query">>

\* Update with the audit entry written before the store write.
UpdateStepsLogFirst == <<"get", "log", "update">>

UpdateSteps == <<"get", "update", "log">>

\* Delete with the record removed before the audit entry is written.
DeleteStepsRemoveFirst == <<"get", "remove", "log">>

DeleteSteps == <<"get", "log", "remove">>

HandlerSteps(kind) ==
  CASE kind = "Create" -> CreateSteps
    [] kind = "List" -> ListSteps
    [] kind = "Update" -> UpdateSteps
    [] kind = "Delete" -> DeleteSteps

FirstStep(kind) == HandlerSteps(kind)[1]

\* The call that follows `step`, or "respond" after the last one.
NextStep(kind, step) ==
  LET s == HandlerSteps(kind)
      i == CHOOSE j \in 1..Len(s) : s[j] = step
  IN IF i = Len(s) THEN "respond" ELSE s[i + 1]

\* The store calls a handler makes when none throws: one for each awaited
\* call, and logChange makes two (the users lookup and the logs add).
StoreCalls(kind) ==
  Len(HandlerSteps(kind))
    + Cardinality({i \in 1..Len(HandlerSteps(kind)) : HandlerSteps(kind)[i] = "log"})

\* ------------------------------------------------------------- the store
\* The store applies a write: server timestamp sentinels become its time.
Resolve(o) ==
  [k \in DOMAIN o |->
     IF k \in {"createdAt", "timestamp"} /\ o[k] = ServerTimestamp
     THEN StoreTime ELSE o[k]]

\* collection.add(doc) / docRef.update: the collection after the write.
StorePut(coll, id, doc) ==
  [k \in DOMAIN coll \cup {id} |-> IF k = id THEN doc ELSE coll[k]]

\* collection.doc('latest').set(doc): the collection holds the last
\* document written.
StoreKeepLast(coll, doc) == <<doc>>

\* db.collection('logs').add(doc): a new document, after those there are.
StoreAdd(coll, doc) == Append(coll, doc)

\* docRef.set(fields): the document replaced by the fields given.
StoreSet(coll, id, fields) == StorePut(coll, id, fields)

\* docRef.update(fields): the fields given are written, the document's
\* other fields are kept.
StoreUpdate(coll, id, fields) == StorePut(coll, id, Spread(coll[id], fields))

\* A soft delete: the document is kept and marked.
StoreTombstone(coll, id) ==
  [k \in DOMAIN coll |->
     IF k = id THEN Spread(coll[k], [deleted |-> TRUE]) ELSE coll[k]]

\* docRef.delete(): the collection without the document (no error when the
\* document is already absent).
StoreDelete(coll, id) == [k \in DOMAIN coll \ {id} |-> coll[k]]

\* A query without its orderBy clause: the documents in any order.
OrderByNothing(S) ==
  { s \in [1..Cardinality(S) -> S] :
      \A i, j \in 1..Cardinality(S) : i # j => s[i] # s[j] }

\* The orders in which a query can return the documents S under
\* orderBy('datetime', 'asc').  The store breaks ties by document id, and
\* its ids are random strings: documents with equal datetimes come in any
\* order.  (The model names documents 1, 2, ... in the order of creation.)
OrderByDatetime(S) ==
  { s \in [1..Cardinality(S) -> S] :
      /\ \A i, j \in 1..Cardinality(S) : i # j => s[i] # s[j]
      /\ \A i, j \in 1..Cardinality(S) :
           i < j => DatetimeRank(reminders[s[i]].datetime)
                      <= DatetimeRank(reminders[s[j]].datetime) }

\* where('userId', '==', userId).orderBy('datetime', 'asc').get(), mapped
\* to { reminderId: doc.id, ...doc.data() }: the results it can return
QueryByUser(userId) ==
  { [n \in 1..Len(ids) |-> Spread([reminderId |-> ids[n]], reminders[ids[n]])] :
      ids \in OrderByDatetime({i \in DOMAIN reminders : reminders[i].userId = userId}) }

\* GET /api/reminders/all: the ids of the users documents with the
\* organizationId given and role 'user'
Patients(organizationId) ==
  {u \in DOMAIN Users :
     Users[u].organizationId = organizationId /\ Users[u].role = "user"}

\* The handler going on to the reminders query whatever the users query
\* returned.
PatientsNeverEmpty(patientIds) == FALSE

\* if (patientsSnapshot.empty)
PatientsEmpty(patientIds) == patientIds = {}

\* patientIds.length > 0 ? patientIds : ['none']
Membership(patientIds) == IF patientIds # {} THEN patientIds ELSE {"none"}

\* where('userId', 'in', members).orderBy('datetime', 'asc').get(), mapped
\* to { id: doc.id, ...doc.data() }: the results it can return
QueryByUsers(members) ==
  { [n \in 1..Len(ids) |-> Spread([id |-> ids[n]], reminders[ids[n]])] :
      ids \in OrderByDatetime({i \in DOMAIN reminders : reminders[i].userId \in members}) }

\* ------------------------------------------------------- handler pieces
\* An id made from the number of documents stored.
NewIdFromCount == Cardinality(DOMAIN reminders) + 1

\* collection.add: the id of the new document
NewId == Cardinality(usedIds) + 1

\* The validation testing for absent fields only (=== undefined).
CreateInvalidAbsentOnly(body) ==
  ~Has(body, "userId") \/ ~Has(body, "title") \/ ~Has(body, "datetime")

\* POST /reminders: if (!userId || !title || !datetime)
CreateInvalid(body) ==
  ~Truthy(body, "userId") \/ ~Truthy(body, "title") \/ ~Truthy(body, "datetime")

\* reminderData without the default of description.
ReminderDataNoDefault(body) ==
  [ userId |-> body.userId,
    title |-> body.title,
    description |-> IF Has(body, "description") THEN body.description ELSE "undefined",
    datetime |-> body.datetime,
    completed |-> FALSE,
    createdAt |-> ServerTimestamp ]

\* POST /reminders: reminderData
ReminderData(body) ==
  [ userId |-> body.userId,
    title |-> body.title,
    description |-> IF Truthy(body, "description") THEN body.description ELSE "",
    datetime |-> body.datetime,
    completed |-> FALSE,
    createdAt |-> ServerTimestamp ]

\* PUT / DELETE: if (!userId)
UserIdMissing(body) == ~Truthy(body, "userId")

\* The check without the comparison of owners.
NotFoundOnly(id, userId) == id \notin DOMAIN reminders

\* PUT / DELETE: if (!doc.exists || doc.data().userId !== userId)
NotFoundOrUnauthorized(id, userId) ==
  id \notin DOMAIN reminders \/ reminders[id].userId # userId

\* updates with description tested like title (if (description)).
UpdatesOfTruthyDescription(body) ==
  LET keys == {k \in {"title", "datetime", "description"} : Truthy(body, k)}
              \cup {k \in {"completed"} : Has(body, k)}
  IN [k \in keys |-> body[k]]

\* updates with title and datetime tested like description
\* (!== undefined).
UpdatesOfDefinedOnly(body) ==
  LET keys == {k \in {"title", "datetime", "description", "completed"} : Has(body, k)}
  IN [k \in keys |-> body[k]]

\* PUT: updates
UpdatesOf(body) ==
  LET keys == {k \in {"title", "datetime"} : Truthy(body, k)}
              \cup {k \in {"description", "completed"} : Has(body, k)}
  IN [k \in keys |-> body[k]]

\* userName without the || 'Unnamed User' fallback.
ResolveUserNameNoFallback(lookup, userId) ==
  IF lookup = "found" THEN Users[userId].name ELSE "Unknown"

\* logChange: userName, from the outcome of the users lookup
ResolveUserName(lookup, userId) ==
  IF lookup = "found"
  THEN IF Users[userId].name # "" THEN Users[userId].name ELSE "Unnamed User"
  ELSE "Unknown"

\* logChange: logEntry
LogEntry(action, userId, entity, entityId, entityName, details, userName) ==
  [ timestamp |-> ServerTimestamp,
    action |-> action,
    userId |-> IF userId # "" THEN userId ELSE "unknown",
    userName |-> userName,
    entity |-> entity,
    entityId |-> entityId,
    entityName |-> IF entityName # "" THEN entityName ELSE "N/A",
    details |-> details ]

\* logChange without its outer try/catch.
LogChangeRethrows(appendOk) == ~appendOk

\* logChange's outer try/catch: does a failed logs add reach the caller?
LogChangeThrows(appendOk) == FALSE

\* The DELETE handler's call with the action of the handler it was copied
\* from.
ActionOfCopied(kind) ==
  CASE kind = "Create" -> "CREATE"
    [] kind = "Update" -> "UPDATE"
    [] kind = "Delete" -> "UPDATE"

\* The logChange call each handler makes.
ActionOf(kind) ==
  CASE kind = "Create" -> "CREATE"
    [] kind = "Update" -> "UPDATE"
    [] kind = "Delete" -> "DELETE"

EntityNameOf(r, l) ==
  CASE r.kind = "Create" -> r.body.title
    [] r.kind = "Update" ->
         IF Truthy(r.body, "title") THEN r.body.title ELSE l.data.title
    [] r.kind = "Delete" -> l.data.title

DetailsOf(r, l) ==
  CASE r.kind = "Create" -> [data |-> l.data]
    [] r.kind = "Update" -> [oldData |-> l.data, newData |-> l.updates]
    [] r.kind = "Delete" -> [data |-> l.data]

HandlerLogEntry(r, l) ==
  LogEntry(ActionOf(r.kind), r.body.userId, "Reminder", l.id,
           EntityNameOf(r, l), DetailsOf(r, l), l.userName)

\* ------------------------------------------------------------- responses
BadRequest(kind) ==
  [ status |-> 400,
    error |-> IF kind = "Create"
              THEN "User ID, title, and datetime are required"
              ELSE "User ID is required" ]

NotFound == [status |-> 404, error |-> "Reminder not found or unauthorized"]

\* the handler's catch block
InternalError(kind) ==
  [ status |-> 500,
    error |-> CASE kind = "Create" -> "Failed to create reminder"
                [] kind = "List" -> "Failed to fetch reminders"
                [] kind = "Update" -> "Failed to update reminder"
                [] kind = "Delete" -> "Failed to delete reminder" ]

\* The response with "not found" for an empty result.
ListResponseNotFound(userId, result) ==
  IF Len(result) = 0
  THEN [status |-> 404, message |-> "No reminders found for this user"]
  ELSE [status |-> 200, userId |-> userId, reminders |-> result]

\* GET /reminders/:userId: the response to a query that returned
ListResponse(userId, result) ==
  IF Len(result) = 0
  THEN [status |-> 200, userId |-> userId, reminders |-> <<>>]
  ELSE [status |-> 200, userId |-> userId, reminders |-> result]

\* GET /api/reminders/all: res.json(reminders)
ListAllResponse(result) == [status |-> 200, list |-> result]

\* GET /api/reminders/all: the catch block, res.status(500).json([])
ListAllError == [status |-> 500, list |-> <<>>]

\* the response after the handler's last awaited call
SuccessResponse(r, l) ==
  CASE r.kind = "Create" ->
         [ status |-> 201, message |-> "Reminder created successfully",
           reminder |-> Spread([reminderId |-> l.id], l.data) ]
    [] r.kind = "Update" ->
         [ status |-> 200, message |-> "Reminder updated successfully",
           reminder |-> Spread(Spread([reminderId |-> r.params.reminderId], l.data),
                               l.updates) ]
    [] r.kind = "Delete" ->
         [status |-> 200, message |-> "Reminder deleted successfully"]

\* --------------------------------------------------------------- actions
\* No request but p's is in flight.
Alone(p) == \A q \in Procs \ {p} : pc[q] = "idle"

\* The outcomes of an awaited store call: it returns (TRUE) or it throws
\* (FALSE).  A handler's first call may throw at any time (the request then
\* changes nothing).  A later call throws at most MaxFailures times in a
\* behaviour, and only while no other request is in flight.
Outcomes(p) == IF failures < MaxFailures /\ Alone(p) THEN BOOLEAN ELSE {TRUE}

\* The handler of slot p sends its response; the slot becomes free.
Respond(p, r, l, resp) ==
  /\ out' = [req |-> r, resp |-> resp, loc |-> l]
  /\ pc' = [pc EXCEPT ![p] = "idle"]
  /\ req' = [req EXCEPT ![p] = NoReq]
  /\ loc' = [loc EXCEPT ![p] = NoLoc]

\* The awaited call `step` returned: the handler runs on to its next
\* awaited call, or to its response after the last one.
Advance(p, r, l, step) ==
  LET n == NextStep(r.kind, step)
  IN IF n = "respond"
     THEN Respond(p, r, l, SuccessResponse(r, l))
     ELSE /\ out' = NoOut
          /\ pc' = [pc EXCEPT ![p] = n]
          /\ req' = [req EXCEPT ![p] = r]
          /\ loc' = [loc EXCEPT ![p] = l]

\* The awaited call `step` threw: the handler's catch block responds.
Throw(p, r, l, step) ==
  Respond(p, r, [l EXCEPT !.threw = step], InternalError(r.kind))

\* A request arrives and takes a free slot.  Which slot is not observable:
\* it takes the lowest.
Arrives(p) ==
  /\ pc[p] = "idle"
  /\ \A q \in Procs : q < p => pc[q] # "idle"

\* The request is answered at its first call without a write (a rejection,
\* a read, or a first call that threw).  Such a step reads at most the
\* reminders collection, at one instant, and changes nothing but `out`.
\* Every value the collection takes it also has in a state with no request
\* in flight (the requests in flight need not have arrived), and two such
\* steps in a row reach the state the second alone reaches: the step is
\* taken when no request is in flight and the last step was not such a step.
\* A store call that threw leaves the collection as it was or as it is
\* without the throw, so the step is taken in behaviours without one.
Quiet == failures = 0 /\ \A q \in Procs : pc[q] = "idle"

Answered == out # NoOut /\ out.loc = NoLoc

Reply(p, r, resp) ==
  /\ Quiet
  /\ ~Answered
  /\ Respond(p, r, NoLoc, resp)
  /\ UNCHANGED <<reminders, logs, usedIds, owner, calls, failures>>

\* The request gets past its first call: the store calls of its handler
\* are among the MaxCalls.
Accept(p, r, l, step) ==
  /\ calls + StoreCalls(r.kind) <= MaxCalls
  /\ calls' = calls + StoreCalls(r.kind)
  /\ Advance(p, r, l, step)
  /\ UNCHANGED failures

\* POST /reminders, up to and including db.collection('reminders').add
CreateReminder(p) ==
  /\ Arrives(p)
  /\ \E body \in CreateBodies :
       LET r == [kind |-> "Create", params |-> Empty, body |-> body]
       IN IF CreateInvalid(body)
          THEN Reply(p, r, BadRequest("Create"))
          ELSE \/ r \in ThrowRequests /\ Reply(p, r, InternalError("Create"))
               \/ \E id \in {NewId} :
                    /\ id \in Ids
                    /\ reminders' = StorePut(reminders, id, Resolve(ReminderData(body)))
                    /\ usedIds' = usedIds \cup {id}
                    /\ owner' = StorePut(owner, id, body.userId)
                    /\ UNCHANGED logs
                    /\ Accept(p, r,
                              [NoLoc EXCEPT !.id = id,
                                            !.data = ReminderData(body),
                                            !.wrote = TRUE],
                              "add")

\* GET /reminders/:userId
ListReminders(p) ==
  /\ Arrives(p)
  /\ \E userId \in UserIds :
       LET r == [kind |-> "List", params |-> [userId |-> userId], body |-> Empty]
       IN \/ r \in ThrowRequests /\ Reply(p, r, InternalError("List"))
          \/ \E result \in QueryByUser(userId) :
               Reply(p, r, ListResponse(userId, result))

\* GET /api/reminders/all: the users query and, when it returns patients,
\* the reminders query.  The users query reads a collection this service
\* never writes, so the two calls are one step; either may throw.
ListAllReminders(p) ==
  /\ Arrives(p)
  /\ Quiet
  /\ ~Answered
  /\ \E organizationId \in Organizations :
       LET r == [kind |-> "ListAll",
                 params |-> [organizationId |-> organizationId], body |-> Empty]
           patientIds == Patients(organizationId)
           asked == [NoLoc EXCEPT !.queried = <<Membership(patientIds)>>]
       IN \/ r \in ThrowRequests /\ Respond(p, r, NoLoc, ListAllError)
          \/ IF PatientsEmpty(patientIds)
             THEN Respond(p, r, NoLoc, ListAllResponse(<<>>))
             ELSE \/ r \in ThrowRequests /\ Respond(p, r, asked, ListAllError)
                  \/ \E result \in QueryByUsers(Membership(patientIds)) :
                       Respond(p, r, asked, ListAllResponse(result))
  /\ UNCHANGED <<reminders, logs, usedIds, owner, calls, failures>>

\* PUT and DELETE /reminders/:reminderId, up to and including
\* reminderRef.get() and the ownership check
GetOwned(p, r) ==
  IF UserIdMissing(r.body)
  THEN Reply(p, r, BadRequest(r.kind))
  ELSE \/ r \in ThrowRequests /\ Reply(p, r, InternalError(r.kind))
       \/ IF NotFoundOrUnauthorized(r.params.reminderId, r.body.userId)
          THEN Reply(p, r, NotFound)
          ELSE /\ Accept(p, r,
                         [NoLoc EXCEPT !.id = r.params.reminderId,
                                       !.data = reminders[r.params.reminderId],
                                       !.updates = IF r.kind = "Update"
                                                   THEN UpdatesOf(r.body) ELSE Empty],
                         "get")
               /\ UNCHANGED <<reminders, logs, usedIds, owner>>

UpdateReminder(p) ==
  /\ Arrives(p)
  /\ \E id \in Ids, body \in UpdateBodies :
       GetOwned(p, [kind |-> "Update", params |-> [reminderId |-> id], body |-> body])

DeleteReminder(p) ==
  /\ Arrives(p)
  /\ \E id \in Ids, body \in DeleteBodies :
       GetOwned(p, [kind |-> "Delete", params |-> [reminderId |-> id], body |-> body])

\* PUT: await reminderRef.update(updates).  The store rejects an update of
\* a document that does not exist.
UpdateWrite(p) ==
  /\ pc[p] = "update"
  /\ \E ok \in Outcomes(p) :
       /\ failures' = IF ok THEN failures ELSE failures + 1
       /\ IF ok /\ loc[p].id \in DOMAIN reminders
          THEN /\ reminders' = StoreUpdate(reminders, loc[p].id, loc[p].updates)
               /\ Advance(p, req[p], [loc[p] EXCEPT !.wrote = TRUE], "update")
          ELSE /\ Throw(p, req[p], loc[p], "update")
               /\ UNCHANGED reminders
  /\ UNCHANGED <<logs, usedIds, owner, calls>>

\* DELETE: await reminderRef.delete()
DeleteRemove(p) ==
  /\ pc[p] = "remove"
  /\ \E ok \in Outcomes(p) :
       /\ failures' = IF ok THEN failures ELSE failures + 1
       /\ IF ok
          THEN /\ reminders' = StoreDelete(reminders, loc[p].id)
               /\ Advance(p, req[p], [loc[p] EXCEPT !.removed = TRUE], "remove")
          ELSE /\ Throw(p, req[p], loc[p], "remove")
               /\ UNCHANGED reminders
  /\ UNCHANGED <<logs, usedIds, owner, calls>>

\* await logChange(...): the users lookup inside the inner try/catch, then
\* the logs add inside the outer try/catch.  The lookup reads a collection
\* this service never writes, so the two calls are one step.
LogChange(p) ==
  /\ pc[p] = "log"
  /\ \E okUser \in Outcomes(p), okAdd \in Outcomes(p) :
       LET userId == req[p].body.userId
           lookup == IF ~okUser THEN "error"
                     ELSE IF userId \in DOMAIN Users THEN "found"
                     ELSE "missing"
           named == [loc[p] EXCEPT !.lookup = lookup,
                                   !.userName = ResolveUserName(lookup, userId)]
           entry == HandlerLogEntry(req[p], named)
           stored == [Resolve(entry) EXCEPT
                        !.details = [k \in DOMAIN entry.details |->
                                       Resolve(entry.details[k])]]
           l == IF okAdd
                THEN [named EXCEPT !.append = "ok",
                                   !.logIdx = @ \cup {Len(logs) + 1}]
                ELSE [named EXCEPT !.append = "failed"]
           thrown == (IF okUser THEN 0 ELSE 1) + (IF okAdd THEN 0 ELSE 1)
       IN /\ failures + thrown <= MaxFailures
          /\ failures' = failures + thrown
          /\ logs' = IF okAdd THEN StoreAdd(logs, stored) ELSE logs
          /\ IF LogChangeThrows(okAdd)
             THEN Throw(p, req[p], l, "log")
             ELSE Advance(p, req[p], l, "log")
  /\ UNCHANGED <<reminders, usedIds, owner, calls>>

Next ==
  \E p \in Procs :
    \/ CreateReminder(p) /\ UNCHANGED mock
    \/ ListReminders(p) /\ UNCHANGED mock
    \/ ListAllReminders(p) /\ UNCHANGED mock
    \/ UpdateReminder(p) /\ UNCHANGED mock
    \/ DeleteReminder(p) /\ UNCHANGED mock
    \/ UpdateWrite(p) /\ UNCHANGED mock
    \/ DeleteRemove(p) /\ UNCHANGED mock
    \/ LogChange(p) /\ UNCHANGED mock

Spec == Init /\ [][Next]_vars

\* ------------------------------------------------ the in-memory variant
\* uuidv4(): a fresh identifier.  The model names the identifiers 1, 2, ...
\* in the order of creation, as it names the store's.
MockNewId(m) == Cardinality(m.uuids) + 1

\* reminders[userId] is set (an empty array is truthy)
MockHasUser(m, userId) == Has(m.reminders, userId)

\* app.post('/reminders')
MockCreate(m, body) ==
  IF ~Truthy(body, "userId") \/ ~Truthy(body, "title") \/ ~Truthy(body, "datetime")
  THEN [m EXCEPT !.resp = [ status |-> 400,
                            error |-> "User ID, title, and datetime are required" ]]
  ELSE LET reminderId == MockNewId(m)
           given == [k \in DOMAIN body \cap {"userId", "title", "description", "datetime"}
                       |-> body[k]]
           newReminder == Spread(Spread([reminderId |-> reminderId], given),
                                 [completed |-> FALSE])
           list == IF MockHasUser(m, body.userId)
                   THEN m.reminders[body.userId] ELSE <<>>
       IN [ reminders |-> StorePut(m.reminders, body.userId, Append(list, newReminder)),
            uuids |-> m.uuids \cup {reminderId},
            resp |-> [ status |-> 201, message |-> "Reminder created successfully",
                       reminder |-> newReminder ] ]

\* app.get('/reminders/:userId')
MockList(m, userId) ==
  IF ~MockHasUser(m, userId)
  THEN [m EXCEPT !.resp = [ status |-> 404,
                            message |-> "No reminders found for this user" ]]
  ELSE [m EXCEPT !.resp = [ status |-> 200, userId |-> userId,
                            reminders |-> m.reminders[userId] ]]

\* app.put('/reminders/:reminderId')
MockUpdate(m, reminderId, body) ==
  IF ~Truthy(body, "userId") \/ ~MockHasUser(m, body.userId)
  THEN [m EXCEPT !.resp = [status |-> 404, error |-> "User not found"]]
  ELSE LET list == m.reminders[body.userId]
           found == {i \in 1..Len(list) : list[i].reminderId = reminderId}
       IN IF found = {}
          THEN [m EXCEPT !.resp = [status |-> 404, error |-> "Reminder not found"]]
          ELSE LET i == CHOOSE j \in found : \A k \in found : j <= k
                   keys == {k \in {"title", "description", "datetime"} : Truthy(body, k)}
                             \cup {k \in {"completed"} : Has(body, k)}
                   reminder == Spread(list[i], [k \in keys |-> body[k]])
               IN [m EXCEPT !.reminders[body.userId][i] = reminder,
                            !.resp = [ status |-> 200,
                                       message |-> "Reminder updated successfully",
                                       reminder |-> reminder ]]

\* reminders[userId].filter(r => r.reminderId !== reminderId)
RECURSIVE MockFilter(_, _)
MockFilter(list, reminderId) ==
  IF list = <<>> THEN <<>>
  ELSE IF Head(list).reminderId # reminderId
       THEN <<Head(list)>> \o MockFilter(Tail(list), reminderId)
       ELSE MockFilter(Tail(list), reminderId)

\* app.delete('/reminders/:reminderId')
MockDelete(m, reminderId, body) ==
  IF ~Truthy(body, "userId") \/ ~MockHasUser(m, body.userId)
  THEN [m EXCEPT !.resp = [status |-> 404, error |-> "User not found"]]
  ELSE [m EXCEPT !.reminders[body.userId] = MockFilter(@, reminderId),
                 !.resp = [status |-> 200, message |-> "Reminder deleted successfully"]]

\* The in-memory variant handles request r.
MockHandle(m, r) ==
  CASE r.kind = "Create" -> MockCreate(m, r.body)
    [] r.kind = "List" -> MockList(m, r.params.userId)
    [] r.kind = "Update" -> MockUpdate(m, r.params.reminderId, r.body)
    [] r.kind = "Delete" -> MockDelete(m, r.params.reminderId, r.body)

\* The step is the first of a request's store-backed handler, none of its
\* store calls throws, and the in-memory variant handles the same request.
Doubled ==
  /\ failures' = failures
  /\ out'.resp.status # 500
  /\ mock' = MockHandle(mock, IF out' # NoOut THEN out'.req ELSE req'[1])

\* A later step of the store-backed handler, none of its store calls
\* throwing.
Undisturbed ==
  /\ failures' = failures
  /\ out'.resp.status # 500
  /\ UNCHANGED mock

\* Both variants are given the same requests, one at a time.
DoubleNext ==
  \/ CreateReminder(1) /\ Doubled
  \/ ListReminders(1) /\ Doubled
  \/ UpdateReminder(1) /\ Doubled
  \/ DeleteReminder(1) /\ Doubled
  \/ UpdateWrite(1) /\ Undisturbed
  \/ DeleteRemove(1) /\ Undisturbed
  \/ LogChange(1) /\ Undisturbed

SpecDouble == Init /\ [][DoubleNext]_vars

\* ------------------------------------------------------------ properties
\* The requests whose handlers are seen in a state, each with its local
\* variables: those in flight and the one answered by the last step.
Seen ==
  {<<req[p], loc[p]>> : p \in {q \in Procs : pc[q] # "idle"}}
    \cup (IF out # NoOut THEN {<<out.req, out.loc>>} ELSE {})

Mutations == {"Create", "Update", "Delete"}

\* The last step answered a mutation with its success response.
Succeeded == out.req.kind \in Mutations /\ out.resp.status \in {200, 201}

\* The id of the reminder the answered request acted on.
ActedOn ==
  IF out.req.kind = "Create" THEN out.resp.reminder.reminderId
  ELSE out.req.params.reminderId

\* The entries the answered request added are entries for its action on
\* its reminder.
OwnEntries ==
  \A i \in out.loc.logIdx :
    /\ i \in 1..Len(logs)
    /\ logs[i].action = (CASE out.req.kind = "Create" -> "CREATE"
                           [] out.req.kind = "Update" -> "UPDATE"
                           [] out.req.kind = "Delete" -> "DELETE")
    /\ logs[i].entity = "Reminder"
    /\ logs[i].entityId = ActedOn

\* C1 as stated: every Create, Update or Delete that responds with success
\* has added exactly one entry to the logs collection, with its action and
\* the id of its reminder, whatever the outcome of the users lookup and of
\* the logs add.
C1_ExactlyOneEntry ==
  Succeeded => Cardinality(out.loc.logIdx) = 1 /\ OwnEntries

\* C1 (amended): every Create, Update or Delete that responds with success
\* has called the logs add once; when the add returned the request has
\* added exactly one entry, with its action and the id of its reminder, and
\* when the add threw it has added none.  This holds for every outcome of
\* the users lookup.
C1_OneEntryIfAppended ==
  Succeeded =>
    /\ out.loc.lookup \in {"found", "missing", "error"}
    /\ out.loc.append \in {"ok", "failed"}
    /\ out.loc.append = "ok" => Cardinality(out.loc.logIdx) = 1
    /\ out.loc.append = "failed" => out.loc.logIdx = {}
    /\ OwnEntries

C1_Witness ==
  /\ Succeeded
  /\ out.req.kind = "Delete"
  /\ out.loc.lookup = "error"
  /\ out.loc.append = "ok"
  /\ Cardinality(out.loc.logIdx) = 1
  /\ \A i \in out.loc.logIdx : logs[i].action = "DELETE"

\* Slot p takes its logChange step: it is at the call and leaves it.
LogStep(p) == pc[p] = "log" /\ pc'[p] # "log"

\* C2: in Delete the audit entry, carrying the record as it was read, is
\* attempted and completed before the removal is issued.  A Delete goes
\* from its read, which found the record in the store, to its logChange
\* call and from there, with the record not removed by it, to the removal;
\* the entry it adds is a DELETE entry with the record it read; and a
\* record leaves the store only by the removal step of a Delete whose logs
\* add has returned or thrown.  So when the entry is written the record is
\* in the store unless another Delete has removed it since the read.
C2_LogBeforeRemoval ==
  [][ /\ \A p \in Procs :
           pc[p] = "idle" /\ pc'[p] # "idle" /\ req'[p].kind = "Delete" =>
             /\ pc'[p] = "log"
             /\ loc'[p].id \in DOMAIN reminders'
             /\ loc'[p].data = reminders'[loc'[p].id]
             /\ loc'[p].append = "none"
      /\ \A p \in Procs :
           LogStep(p) /\ req[p].kind = "Delete" =>
             /\ ~loc[p].removed
             /\ pc'[p] = "remove"
             /\ loc'[p].append \in {"ok", "failed"}
             /\ reminders' = reminders
             /\ logs' # logs =>
                  /\ Len(logs') = Len(logs) + 1
                  /\ SubSeq(logs', 1, Len(logs)) = logs
                  /\ logs'[Len(logs')].action = "DELETE"
                  /\ logs'[Len(logs')].entityId = req[p].params.reminderId
                  /\ logs'[Len(logs')].details.data = loc[p].data
      /\ \A id \in DOMAIN reminders \ DOMAIN reminders' :
           \E q \in Procs :
             /\ req[q].kind = "Delete"
             /\ pc[q] = "remove"
             /\ req[q].params.reminderId = id
             /\ loc[q].append \in {"ok", "failed"} ]_vars

C2_Witness ==
  /\ out.req.kind = "Delete"
  /\ out.resp.status = 200
  /\ out.loc.removed
  /\ out.loc.append = "ok"
  /\ out.req.params.reminderId \notin DOMAIN reminders
  /\ \A i \in out.loc.logIdx : logs[i].details.data = out.loc.data

\* C3 as stated: the log holds no entry for a mutation whose store write or
\* removal has not yet been performed or has failed: a request that has
\* added an entry has applied its write (Create, Update) or its removal
\* (Delete).
C3_LoggedOnlyAfterStoreOp ==
  \A s \in Seen :
    s[2].logIdx # {} =>
      IF s[1].kind = "Delete" THEN s[2].removed ELSE s[2].wrote

\* C3 (amended): for Create and Update the Audit Logger is invoked only
\* after the store write has succeeded: a Create or Update that has called
\* logChange has applied its write.  For Delete the logger is invoked
\* after the record was read and found to be the caller's, and before the
\* removal: a Delete that has removed the record has called logChange
\* before, so the log can hold a DELETE entry for a reminder that is still
\* stored (the removal not yet performed, or failed).
C3_LoggedAfterWrite ==
  \A s \in Seen :
    /\ s[1].kind \in {"Create", "Update"} /\ s[2].append # "none" =>
         /\ s[2].wrote
         /\ s[2].id \in usedIds
    /\ s[1].kind = "Delete" /\ s[2].append # "none" =>
         /\ s[2].data # Empty
         /\ s[2].data.userId = s[1].body.userId
    /\ s[1].kind = "Delete" /\ s[2].removed => s[2].append # "none"

C3_Witness ==
  /\ out.req.kind = "Delete"
  /\ out.resp.status = 500
  /\ out.loc.threw = "remove"
  /\ out.loc.append = "ok"
  /\ out.req.params.reminderId \in DOMAIN reminders
  /\ \E i \in out.loc.logIdx : logs[i].action = "DELETE"

\* C4: an audit failure never affects the primary operation.  The
\* logChange step of a Create, Update or Delete leaves the reminders
\* collection as it is, and whatever the outcomes of the users lookup and
\* of the logs add, the handler goes on as its locals before the call
\* determine: Create and Update send their success response, Delete goes
\* to its removal; no error of logChange reaches the handler's catch.
C4_AuditFailureIsolated ==
  [][ \A p \in Procs :
        LogStep(p) =>
          /\ reminders' = reminders
          /\ usedIds' = usedIds
          /\ IF req[p].kind = "Delete"
             THEN /\ pc'[p] = "remove"
                  /\ req'[p] = req[p]
                  /\ loc'[p].id = loc[p].id
                  /\ loc'[p].data = loc[p].data
             ELSE /\ pc'[p] = "idle"
                  /\ out'.req = req[p]
                  /\ out'.resp = SuccessResponse(req[p], loc[p])
                  /\ out'.loc.threw = "none" ]_vars

C4_Witness ==
  /\ Succeeded
  /\ out.req.kind = "Update"
  /\ out.loc.append = "failed"
  /\ out.loc.wrote
  /\ out.req.params.reminderId \in DOMAIN reminders
  /\ reminders[out.req.params.reminderId]
       = Spread(out.loc.data, out.loc.updates)

\* The userName logChange is to record for the user of request r when its
\* users lookup had the outcome `lookup`.
NameFor(r, lookup) ==
  IF lookup = "found"
  THEN IF r.body.userId = "u1" THEN "Alice" ELSE "Unnamed User"
  ELSE "Unknown"

\* C5: when the users lookup throws or the user has no document, logChange
\* goes on to the logs add with userName "Unknown" ("Unnamed User" when the
\* document exists and its name is blank), the entry it adds carries that
\* name, and the handler goes on to its success response: a handler that
\* answers with an error after logChange is a Delete whose removal threw.
C5_UnknownUserStillLogged ==
  \A s \in Seen :
    s[2].lookup # "none" =>
      /\ s[2].lookup = "found" => s[1].body.userId \in {"u1", "u2"}
      /\ s[2].lookup = "missing" => s[1].body.userId = "u3"
      /\ s[2].userName = NameFor(s[1], s[2].lookup)
      /\ s[2].append \in {"ok", "failed"}
      /\ s[2].append = "ok" => s[2].logIdx # {}
      /\ \A i \in s[2].logIdx :
           /\ i \in 1..Len(logs)
           /\ logs[i].userName = NameFor(s[1], s[2].lookup)
           /\ logs[i].userId = s[1].body.userId
      /\ s = <<out.req, out.loc>> =>
           \/ out.resp.status \in {200, 201}
           \/ /\ out.req.kind = "Delete"
              /\ out.resp.status = 500
              /\ out.loc.threw = "remove"

C5_Witness ==
  /\ Succeeded
  /\ out.loc.lookup = "error"
  /\ out.loc.append = "ok"
  /\ out.req.body.userId = "u1"
  /\ \E i \in out.loc.logIdx : logs[i].userName = "Unknown"

\* The first step of a request answered it without going on to a call.
Rejected(r) == out'.req = r /\ out'.loc = NoLoc /\ out' # out

Unchanged == reminders' = reminders /\ logs' = logs /\ usedIds' = usedIds

\* C6: an Update or Delete with a non-empty userId whose reminderId is not
\* in the store, or is the id of a reminder with another userId, is
\* answered (when the read returns) with the one 'not found or
\* unauthorized' response, the same in both cases, and the step changes
\* neither the reminders collection nor the log; such a request never goes
\* on to a write, a removal or a logChange call.
C6_NotFoundOrUnauthorized ==
  [][ /\ \A p \in Procs :
           /\ pc[p] = "idle" /\ pc'[p] # "idle"
           /\ req'[p].kind \in {"Update", "Delete"}
           => /\ req'[p].params.reminderId \in DOMAIN reminders
              /\ reminders[req'[p].params.reminderId].userId = req'[p].body.userId
      /\ \A kind \in {"Update", "Delete"}, id \in Ids, body \in UpdateBodies \cup DeleteBodies :
           LET r == [kind |-> kind, params |-> [reminderId |-> id], body |-> body]
               absent == id \notin DOMAIN reminders
               foreign == id \in DOMAIN reminders /\ reminders[id].userId # body.userId
           IN /\ Rejected(r) /\ Truthy(body, "userId") /\ (absent \/ foreign) =>
                   /\ out'.resp.status # 500 =>
                        out'.resp = [status |-> 404,
                                     error |-> "Reminder not found or unauthorized"]
                   /\ Unchanged
              /\ Rejected(r) /\ out'.resp.status = 404 =>
                   /\ Truthy(body, "userId")
                   /\ absent \/ foreign
                   /\ Unchanged ]_vars

C6_Witness ==
  /\ out.req.kind = "Delete"
  /\ out.resp.status = 404
  /\ out.loc = NoLoc
  /\ out.req.params.reminderId \in DOMAIN reminders
  /\ reminders[out.req.params.reminderId].userId = "u1"
  /\ out.req.body.userId = "u2"
  /\ logs # <<>>

\* A required field of a Create body is absent or empty.
Lacks(body, k) == k \notin DOMAIN body \/ body[k] = ""

\* C7: a Create with userId, title or datetime absent or empty is answered
\* with the validation error by a step that changes neither the reminders
\* collection nor the log and generates no id; a Create that goes on to a
\* store call has all three.
C7_CreateValidation ==
  [][ /\ \A p \in Procs :
           pc[p] = "idle" /\ pc'[p] # "idle" /\ req'[p].kind = "Create" =>
             \A k \in {"userId", "title", "datetime"} : ~Lacks(req'[p].body, k)
      /\ \A body \in CreateBodies :
           /\ Rejected([kind |-> "Create", params |-> Empty, body |-> body])
           /\ \E k \in {"userId", "title", "datetime"} : Lacks(body, k)
           => /\ out'.resp = [status |-> 400,
                              error |-> "User ID, title, and datetime are required"]
              /\ Unchanged ]_vars

C7_Witness ==
  /\ out.req.kind = "Create"
  /\ out.resp.status = 400
  /\ Has(out.req.body, "datetime") /\ out.req.body.datetime = ""
  /\ reminders # Empty

\* The record rec is the reminder a Create with body b is to make.
CreatedFrom(rec, b) ==
  /\ rec.completed = FALSE
  /\ rec.userId = b.userId
  /\ rec.title = b.title
  /\ rec.datetime = b.datetime
  /\ rec.description = IF "description" \in DOMAIN b THEN b.description ELSE ""

\* C8: a valid Create whose insert succeeds stores, under an id the store
\* generates for it (an id no document had before), a record with
\* completed = false, the supplied userId, title and datetime, and the
\* supplied description or "" when it is omitted, and changes no other
\* record; the reminder in its success response is that record under that
\* id.
C8_CreateResult ==
  [][ /\ \A p \in Procs :
           pc[p] = "idle" /\ pc'[p] # "idle" /\ req'[p].kind = "Create" =>
             LET id == loc'[p].id
             IN /\ id \notin usedIds
                /\ id \notin DOMAIN reminders
                /\ usedIds' = usedIds \cup {id}
                /\ DOMAIN reminders' = DOMAIN reminders \cup {id}
                /\ CreatedFrom(reminders'[id], req'[p].body)
                /\ \A j \in DOMAIN reminders : reminders'[j] = reminders[j]
      /\ out' # out /\ out'.req.kind = "Create" /\ out'.resp.status = 201 =>
           /\ CreatedFrom(out'.resp.reminder, out'.req.body)
           /\ out'.resp.reminder.reminderId = loc[CHOOSE p \in Procs : pc'[p] # pc[p]].id
           /\ out'.resp.reminder.reminderId \in usedIds ]_vars

C8_Witness ==
  /\ out.req.kind = "Create"
  /\ out.resp.status = 201
  /\ ~Has(out.req.body, "description")
  /\ out.resp.reminder.description = ""
  /\ out.resp.reminder.reminderId \in DOMAIN reminders
  /\ reminders[out.resp.reminder.reminderId].description = ""
  /\ reminders[out.resp.reminder.reminderId].completed = FALSE

\* C9: after any sequence of Create, Update and Delete, a ListByUser(u)
\* whose query returns answers with exactly the reminders stored with
\* userId = u, each once and as stored, under its id, in non-decreasing
\* order of datetime.
C9_ListByUser ==
  out.req.kind = "List" /\ out.resp.status = 200 =>
    LET u == out.req.params.userId
        res == out.resp.reminders
        owned == {i \in DOMAIN reminders : reminders[i].userId = u}
    IN /\ out.resp.userId = u
       /\ Len(res) = Cardinality(owned)
       /\ {res[n].reminderId : n \in 1..Len(res)} = owned
       /\ \A n \in 1..Len(res) :
            /\ DOMAIN res[n] = DOMAIN reminders[res[n].reminderId] \cup {"reminderId"}
            /\ \A k \in DOMAIN reminders[res[n].reminderId] :
                 res[n][k] = reminders[res[n].reminderId][k]
       /\ \A m, n \in 1..Len(res) :
            m < n => ~(res[m].datetime = D2 /\ res[n].datetime = D1)

C9_Witness ==
  /\ out.req.kind = "List"
  /\ out.resp.status = 200
  /\ Len(out.resp.reminders) = 2
  /\ out.resp.reminders[1].reminderId = 2
  /\ out.resp.reminders[1].datetime = D1
  /\ out.resp.reminders[2].datetime = D2

\* C10: a ListByUser for a user who owns no stored reminder (a user never
\* heard of, one who never created a reminder, one whose reminders were
\* all deleted) whose query returns answers with { userId, reminders: [] }
\* and status 200, not with an error.
C10_EmptyList ==
  /\ out.req.kind = "List"
  /\ \A i \in DOMAIN reminders : reminders[i].userId # out.req.params.userId
  /\ ~(out.resp.status = 500 /\ out.resp.error = "Failed to fetch reminders")
  => out.resp = [status |-> 200, userId |-> out.req.params.userId, reminders |-> <<>>]

C10_Witness ==
  /\ out.req.kind = "List"
  /\ out.req.params.userId = "u1"
  /\ out.resp.status = 200
  /\ out.resp.reminders = <<>>
  /\ reminders = Empty
  /\ \E i \in 1..Len(logs) : logs[i].action = "DELETE" /\ logs[i].userId = "u1"

\* Slot p's update is applied: it goes from the update call to logChange.
UpdateStep(p) == pc[p] = "update" /\ pc'[p] = "log" /\ req[p].kind = "Update"

\* The last step answered an Update with its success response.
Updated(o) == o.req.kind = "Update" /\ o.resp.status = 200

\* C11: an Update by the owner applies falsy values that are present: with
\* completed = false in the body the stored and the returned completed are
\* false (also when it was true), and with description = "" in the body the
\* stored and the returned description are "".  More generally the stored
\* and returned completed and description are those of the body whenever
\* the body has them.
C11_FalsyValuesApplied ==
  [][ /\ \A p \in Procs :
           UpdateStep(p) =>
             \A k \in {"completed", "description"} :
               k \in DOMAIN req[p].body =>
                 reminders'[req[p].params.reminderId][k] = req[p].body[k]
      /\ out' # out /\ Updated(out') =>
           \A k \in {"completed", "description"} :
             k \in DOMAIN out'.req.body =>
               out'.resp.reminder[k] = out'.req.body[k] ]_vars

C11_Witness ==
  /\ Updated(out)
  /\ out.req.body = [userId |-> "u1", description |-> "", completed |-> FALSE]
  /\ out.loc.data.completed = TRUE
  /\ out.loc.data.description = "x"
  /\ out.resp.reminder.completed = FALSE
  /\ out.resp.reminder.description = ""
  /\ reminders[out.req.params.reminderId].completed = FALSE
  /\ reminders[out.req.params.reminderId].description = ""

\* C12: a successful Update leaves every field the body omits as it was
\* stored, never changes the id, the userId or the createdAt of its
\* reminder, and leaves every other reminder as it was; and a stored
\* reminder changes by no other step.
C12_UpdateFrame ==
  [][ /\ \A p \in Procs :
           UpdateStep(p) =>
             LET id == req[p].params.reminderId
             IN /\ DOMAIN reminders' = DOMAIN reminders
                /\ DOMAIN reminders'[id] = DOMAIN reminders[id]
                /\ \A k \in DOMAIN reminders[id] :
                     k \notin DOMAIN req[p].body => reminders'[id][k] = reminders[id][k]
                /\ reminders'[id].userId = reminders[id].userId
                /\ reminders'[id].createdAt = reminders[id].createdAt
                /\ \A j \in DOMAIN reminders \ {id} : reminders'[j] = reminders[j]
      /\ \A id \in DOMAIN reminders \cap DOMAIN reminders' :
           reminders'[id] # reminders[id] =>
             \E p \in Procs : UpdateStep(p) /\ req[p].params.reminderId = id
      /\ out' # out /\ Updated(out') =>
           /\ out'.resp.reminder.reminderId = out'.req.params.reminderId
           /\ \A k \in DOMAIN out'.loc.data :
                k \notin DOMAIN out'.req.body =>
                  out'.resp.reminder[k] = out'.loc.data[k] ]_vars

C12_Witness ==
  /\ Updated(out)
  /\ out.req.body = [userId |-> "u1", completed |-> TRUE]
  /\ Cardinality(DOMAIN reminders) = 2
  /\ reminders[out.req.params.reminderId].completed = TRUE
  /\ reminders[out.req.params.reminderId].title = out.loc.data.title
  /\ reminders[out.req.params.reminderId].datetime = out.loc.data.datetime
  /\ \E j \in DOMAIN reminders : reminders[j].completed = FALSE

C15_LogAppendOnly ==
  [][ /\ Len(logs') >= Len(logs)
      /\ \A i \in 1..Len(logs) : logs'[i] = logs[i]
      /\ logs' # logs =>
           /\ Len(logs') = Len(logs) + 1
           /\ \E p \in Procs :
                /\ LogStep(p)
                /\ req[p].kind \in Mutations
                /\ logs'[Len(logs')].entityId = loc[p].id ]_vars

C15_Witness ==
  /\ Len(logs) = 3
  /\ logs[1].action = "CREATE"
  /\ logs[2].action = "UPDATE"
  /\ logs[3].action = "DELETE"
  /\ logs[2].entityId = logs[1].entityId
  /\ logs[3].entityId = logs[1].entityId
  /\ reminders = Empty

\* C16: Delete is a hard removal that is never undone.  When a Delete
\* answers with success its reminder is not in the store; a document enters
\* the store only under an id the store has not generated before, and the
\* store forgets no id it generated, so a removed reminder never comes
\* back, whatever requests are interleaved (an Update that read the
\* reminder before the removal has its write rejected); a ListByUser
\* answers with stored reminders only; and an Update or Delete that
\* arrives for a reminder not in the store is answered 'not found or
\* unauthorized' (when its read returns) and goes on to no store call.
C16_DeleteNeverUndone ==
  [][ /\ out' # out /\ out'.req.kind = "Delete" /\ out'.resp.status = 200 =>
           out'.req.params.reminderId \notin DOMAIN reminders'
      /\ \A id \in DOMAIN reminders' \ DOMAIN reminders : id \notin usedIds
      /\ usedIds \subseteq usedIds'
      /\ DOMAIN reminders' \subseteq usedIds'
      /\ out' # out /\ out'.req.kind = "List" /\ out'.resp.status = 200 =>
           \A n \in 1..Len(out'.resp.reminders) :
             out'.resp.reminders[n].reminderId \in DOMAIN reminders'
      /\ \A p \in Procs :
           pc[p] = "idle" /\ pc'[p] # "idle" /\ req'[p].kind \in {"Update", "Delete"} =>
             req'[p].params.reminderId \in DOMAIN reminders
      /\ /\ out' # out
         /\ out'.req.kind \in {"Update", "Delete"}
         /\ out'.loc = NoLoc
         /\ out'.resp.status \notin {400, 500}
         /\ out'.req.params.reminderId \notin DOMAIN reminders
         => out'.resp.status = 404 ]_vars

C16_Witness ==
  /\ out.req.kind = "Update"
  /\ out.resp.status = 500
  /\ out.loc.threw = "update"
  /\ failures = 0
  /\ out.req.params.reminderId \in usedIds
  /\ out.req.params.reminderId \notin DOMAIN reminders
  /\ \E i \in 1..Len(logs) :
       logs[i].action = "DELETE" /\ logs[i].entityId = out.req.params.reminderId

\* The entries of the log with action a for reminder id.
EntriesFor(a, id) ==
  {i \in 1..Len(logs) : logs[i].action = a /\ logs[i].entityId = id}

\* C19 as stated: for every reminder id the log holds at most one CREATE
\* entry and at most one DELETE entry, and no UPDATE entry for it comes
\* after its DELETE entry, under every interleaving.
C19_AtMostOneDelete ==
  \A id \in Ids :
    /\ Cardinality(EntriesFor("CREATE", id)) <= 1
    /\ Cardinality(EntriesFor("DELETE", id)) <= 1
    /\ \A i \in EntriesFor("DELETE", id), j \in EntriesFor("UPDATE", id) : j < i

\* C19 (amended): for every reminder id the log holds at most one CREATE
\* entry.  An entry is added by the logChange step of a request that has
\* added none before; an UPDATE or DELETE entry is added by a request for
\* that reminder that read it from the store and found it the caller's
\* (an UPDATE entry after its write was applied).  So there is one DELETE
\* entry for each Delete that passed the ownership check: more than one
\* when two Deletes pass it before either removes the record or when a
\* Delete is repeated after its removal failed, and an UPDATE entry can
\* follow a DELETE entry.
C19_EntriesPerRequest ==
  [][ logs' # logs =>
        LET e == logs'[Len(logs')]
        IN \E p \in Procs :
             /\ LogStep(p)
             /\ loc[p].logIdx = {}
             /\ loc'[p].logIdx \cup out'.loc.logIdx = {Len(logs')}
             /\ e.entityId = loc[p].id
             /\ e.action = "CREATE" =>
                  /\ req[p].kind = "Create"
                  /\ \A i \in 1..Len(logs) :
                       ~(logs[i].action = "CREATE" /\ logs[i].entityId = e.entityId)
             /\ e.action \in {"UPDATE", "DELETE"} =>
                  /\ req[p].kind = IF e.action = "UPDATE" THEN "Update" ELSE "Delete"
                  /\ req[p].params.reminderId = e.entityId
                  /\ loc[p].data # Empty
                  /\ loc[p].data.userId = req[p].body.userId
             /\ e.action = "UPDATE" => loc[p].wrote ]_vars

C19_Witness ==
  \E id \in Ids :
    /\ Cardinality(EntriesFor("CREATE", id)) = 1
    /\ Cardinality(EntriesFor("DELETE", id)) = 2
    /\ failures = 0
    /\ id \notin DOMAIN reminders
    /\ out.req.kind = "Delete"
    /\ out.resp.status = 200

\* C18: every log entry is attributable to the owner.  The entityId of
\* every entry is the id of a reminder a Create made and its userId is the
\* userId that reminder was created with, which is the one it is stored
\* with as long as it is stored; a request for a reminder created with
\* another userId than its own never gets to its logChange call.
C18_EntriesOfOwner ==
  /\ DOMAIN owner = usedIds
  /\ \A id \in DOMAIN reminders : reminders[id].userId = owner[id]
  /\ \A i \in 1..Len(logs) :
       /\ logs[i].entity = "Reminder"
       /\ logs[i].entityId \in usedIds
       /\ logs[i].userId = owner[logs[i].entityId]
  /\ \A s \in Seen :
       s[1].kind \in {"Update", "Delete"} /\ s[2] # NoLoc =>
         /\ s[1].params.reminderId \in usedIds
         /\ s[1].body.userId = owner[s[1].params.reminderId]

C18_Witness ==
  /\ Updated(out)
  /\ out.req.body.userId = "u2"
  /\ Len(logs) = 3
  /\ {logs[i].userId : i \in 1..Len(logs)} = {"u1", "u2"}
  /\ {logs[i].action : i \in 1..Len(logs)} = {"CREATE", "UPDATE"}
  /\ \E i, j \in 1..Len(logs) : logs[i].entityId # logs[j].entityId

\* The users of role 'user' of the organization the answered request
\* names.
PatientsAsked ==
  {u \in {"u1", "u2", "a1"} :
     /\ Users[u].organizationId = out.req.params.organizationId
     /\ Users[u].role = "user"}

\* C14: a ListByOrganization for an organization with no user of role
\* 'user' answers (when the users query returns) with the empty list and
\* issues no query on the reminders collection; every reminders query a
\* ListByOrganization issues has the patients of the organization as its
\* filter, never the empty set.
C14_NoQueryWithoutPatients ==
  /\ out.req.kind = "ListAll" =>
       /\ PatientsAsked = {} =>
            /\ out.loc.queried = <<>>
            /\ out.resp.status # 500 => out.resp = [status |-> 200, list |-> <<>>]
       /\ \A i \in 1..Len(out.loc.queried) :
            /\ out.loc.queried[i] # {}
            /\ out.loc.queried[i] = PatientsAsked
  /\ \A s \in Seen : s[1].kind # "ListAll" => s[2].queried = <<>>

C14_Witness ==
  /\ out.req.kind = "ListAll"
  /\ out.req.params.organizationId = "o2"
  /\ out.resp = [status |-> 200, list |-> <<>>]
  /\ out.loc.queried = <<>>
  /\ \E id \in DOMAIN reminders : reminders[id].userId = "u1"

\* The outcome class of a response.
OutcomeClass(resp) ==
  CASE resp.status \in {200, 201} -> "success"
    [] resp.status = 400 -> "validation error"
    [] resp.status = 404 -> "not found"
    [] OTHER -> "error"

\* The reminders a response carries, in its order, without the creation
\* time (which the in-memory variant does not keep).
ContentsOf(resp) ==
  LET Shared(rem) == [k \in DOMAIN rem \ {"createdAt"} |-> rem[k]]
  IN IF Has(resp, "reminder") THEN <<Shared(resp.reminder)>>
     ELSE IF Has(resp, "reminders")
          THEN [i \in 1..Len(resp.reminders) |-> Shared(resp.reminders[i])]
          ELSE <<>>

\* C20: given the same requests one at a time, the in-memory variant and
\* the store-backed handlers answer each request with the same outcome
\* class and the same reminders in the same order.
C20_FaithfulDouble ==
  out # NoOut =>
    /\ OutcomeClass(out.resp) = OutcomeClass(mock.resp)
    /\ ContentsOf(out.resp) = ContentsOf(mock.resp)

====
